---------------------------- MODULE Spec2Model ----------------------------
(***************************************************************************)
(* Discrete-time SIR simulation of kraryal/Pandemic-Simulation-SIR-Model:  *)
(* SIRModel (python_recreation/sir_model.py) and SIRModelExcelMatch        *)
(* (python_recreation/sir_model_fixed.py).                                 *)
(*                                                                         *)
(* Numbers.  The code computes with IEEE-754 binary floating point         *)
(* (Python float / numpy float64, round-to-nearest-even).  A value is      *)
(* modelled as a record [k, m, e]:                                         *)
(*    k = "fin" : the number m * 2^e, m a signed integer that is 0 (with   *)
(*                e = 0) or has exactly MantBits significant bits;         *)
(*    k = "inf" : +infinity (m = 1) or -infinity (m = -1);                 *)
(*    k = "nan" : not-a-number.                                            *)
(* Every arithmetic operator below rounds its exact result to MantBits     *)
(* bits, ties to even, as the hardware does with 53 bits.  The sign of a   *)
(* zero is not represented (0.0 == -0.0 in every comparison the code       *)
(* makes) and the exponent is not bounded (no run of the model comes near  *)
(* the overflow threshold of binary64).                                    *)
(***************************************************************************)
EXTENDS Integers, Sequences, FiniteSets, TLC

\* Significant bits of a floating-point number (53 in binary64).
MantBits == 11

\* Longest simulation explored for every parameter set.
MaxDays == 3

--------------------------------------------------------------------------
(* Floating-point arithmetic *)

Abs(x) == IF x < 0 THEN -x ELSE x

Sgn(x) == IF x < 0 THEN -1 ELSE IF x > 0 THEN 1 ELSE 0

\* Number of bits of the positive integer n (n < 2^30).
BitLen(n) == CHOOSE k \in 1..30 : 2^(k-1) <= n /\ n < 2^k

Fin(m, e) == [k |-> "fin", m |-> m, e |-> e]

Zero == Fin(0, 0)

Inf(s) == [k |-> "inf", m |-> s, e |-> 0]

NaN == [k |-> "nan", m |-> 0, e |-> 0]

IsFin(x) == x.k = "fin"

IsNaN(x) == x.k = "nan"

\* The float nearest to s * n * 2^e (n >= 0 an integer below 2^30, s the
\* sign), ties to even.
Round(s, n, e) ==
    IF n = 0 THEN Zero
    ELSE LET len == BitLen(n) IN
         IF len <= MantBits
         THEN Fin(s * n * 2^(MantBits - len), e - (MantBits - len))
         ELSE LET sh   == len - MantBits
                  q    == n \div 2^sh
                  r    == n % 2^sh
                  half == 2^(sh - 1)
                  up   == r > half \/ (r = half /\ q % 2 = 1)
                  q1   == IF up THEN q + 1 ELSE q
              IN IF q1 = 2^MantBits
                 THEN Fin(s * 2^(MantBits - 1), e + sh + 1)
                 ELSE Fin(s * q1, e + sh)

\* int -> float conversion (float(n), or storing n into a float64 array).
FromInt(n) == Round(Sgn(n), Abs(n), 0)

\* x * y
FMul(x, y) ==
    IF IsNaN(x) \/ IsNaN(y) THEN NaN
    ELSE IF ~IsFin(x) \/ ~IsFin(y)
         THEN IF x.m = 0 \/ y.m = 0 THEN NaN ELSE Inf(Sgn(x.m) * Sgn(y.m))
         ELSE Round(Sgn(x.m) * Sgn(y.m), Abs(x.m) * Abs(y.m), x.e + y.e)

\* The correctly rounded quotient of two finite floats, y # 0.
FinDiv(x, y) ==
    IF x.m = 0 THEN Zero
    ELSE LET a  == Abs(x.m) * 2^(MantBits + 2)
             b  == Abs(y.m)
             q  == a \div b
             st == IF a % b = 0 THEN 0 ELSE 1
         IN Round(Sgn(x.m) * Sgn(y.m), 2 * q + st, x.e - y.e - MantBits - 3)

\* x / y on numpy float64 scalars: a zero divisor gives inf or nan (with a
\* RuntimeWarning), never an exception.
FDiv(x, y) ==
    IF IsNaN(x) \/ IsNaN(y) THEN NaN
    ELSE IF ~IsFin(x)
         THEN IF ~IsFin(y) THEN NaN
              ELSE Inf(x.m * (IF y.m < 0 THEN -1 ELSE 1))
         ELSE IF ~IsFin(y) THEN Zero
              ELSE IF y.m = 0
                   THEN IF x.m = 0 THEN NaN ELSE Inf(Sgn(x.m))
                   ELSE FinDiv(x, y)

\* The sum of two finite floats.
FinAdd(x, y) ==
    IF x.m = 0 THEN y
    ELSE IF y.m = 0 THEN x
    ELSE LET hi == IF x.e >= y.e THEN x ELSE y
             lo == IF x.e >= y.e THEN y ELSE x
             d  == hi.e - lo.e
         IN IF d > MantBits + 2
            THEN hi
            ELSE LET t == hi.m * 2^d + lo.m
                 IN Round(Sgn(t), Abs(t), lo.e)

\* x + y
FAdd(x, y) ==
    IF IsNaN(x) \/ IsNaN(y) THEN NaN
    ELSE IF ~IsFin(x)
         THEN IF ~IsFin(y) /\ y.m # x.m THEN NaN ELSE x
         ELSE IF ~IsFin(y) THEN y
              ELSE FinAdd(x, y)

FNeg(x) == [x EXCEPT !.m = -x.m]

\* x - y
FSub(x, y) == FAdd(x, FNeg(y))

\* x < y (False when either is nan).
FLt(x, y) ==
    IF IsNaN(x) \/ IsNaN(y) THEN FALSE
    ELSE IF ~IsFin(x) THEN x.m < 0 /\ (IsFin(y) \/ y.m > 0)
    ELSE IF ~IsFin(y) THEN y.m > 0
    ELSE LET d == FinAdd(x, FNeg(y)) IN d.m < 0

FLe(x, y) == ~IsNaN(x) /\ ~IsNaN(y) /\ ~FLt(y, x)


\* A Python int of any size: the integer m * 2^e (e >= 0; e > 0 only when
\* m has MantBits bits).
BigInt(m, e) == [m |-> m, e |-> e]

\* int(x) of a float: truncation toward zero; OverflowError on an infinity,
\* ValueError on nan.
PyInt(x) ==
    IF IsNaN(x) THEN [err |-> "ValueError", v |-> BigInt(0, 0)]
    ELSE IF ~IsFin(x) THEN [err |-> "OverflowError", v |-> BigInt(0, 0)]
    ELSE IF x.e >= 0 THEN [err |-> "", v |-> BigInt(x.m, x.e)]
    ELSE IF -x.e >= MantBits THEN [err |-> "", v |-> BigInt(0, 0)]
    ELSE [err |-> "",
          v   |-> BigInt(Sgn(x.m) * (Abs(x.m) \div 2^(-x.e)), 0)]

\* f"{x:.2f}" (scale = 100) and f"{x:.1%}" (scale = 1000): the decimal
\* nearest to the exact binary value, as the integer v * 2^e that is
\* x * scale rounded half to even; "inf" and "nan" print as such.
Format(x, scale) ==
    IF ~IsFin(x) THEN [k |-> x.k, v |-> x.m, e |-> 0]
    ELSE IF x.e >= 0 THEN [k |-> "num", v |-> x.m * scale, e |-> x.e]
    ELSE IF -x.e > MantBits + 12 THEN [k |-> "num", v |-> 0, e |-> 0]
    ELSE LET n    == Abs(x.m) * scale
             d    == 2^(-x.e)
             q    == n \div d
             r    == n % d
             up   == 2 * r > d \/ (2 * r = d /\ q % 2 = 1)
         IN [k |-> "num", v |-> Sgn(x.m) * (IF up THEN q + 1 ELSE q),
             e |-> 0]

--------------------------------------------------------------------------
(* Callers' arguments *)

\* A float literal num/den of the source text (0.5 is <<1, 2>>, 0.1 is
\* <<1, 10>>): the float nearest to the decimal.
Lit(q) == FinDiv(FromInt(q[1]), FromInt(q[2]))

Populations == {-4, 0, 4, 23, 1000}

Infecteds == {-1, 0, 1, 5, 17}

Betas == {<<-1, 2>>, <<0, 1>>, <<1, 2>>, <<1, 1>>, <<10, 1>>}

Gammas == {<<-1, 10>>, <<0, 1>>, <<1, 10>>, <<1, 1>>, <<3, 2>>}

\* The arguments of the two __main__ blocks.
MainPopulation == 1000

MainInfected == 1

MainBeta == <<1, 2>>

MainGamma == <<1, 10>>

MainDays == 75

ExcelMainDays == 10

DayChoices(population, initial_infected, b, g) ==
    (0..MaxDays) \cup
    (IF /\ population = MainPopulation /\ initial_infected = MainInfected
        /\ b = MainBeta /\ g = MainGamma
     THEN {ExcelMainDays, MainDays} ELSE {})

ArgSets ==
    UNION { { [population |-> p, initial_infected |-> i, beta |-> b,
               gamma |-> g, days |-> d] : d \in DayChoices(p, i, b, g) } :
            p \in Populations, i \in Infecteds, b \in Betas, g \in Gammas }

--------------------------------------------------------------------------
(* State *)

VARIABLES
    args,       \* what the caller passes: population, initial_infected,
                \* beta, gamma (to both constructors) and days
    self,       \* the SIRModel instance
    pc,         \* where SIRModel.discrete_simulation is
    t,          \* its loop variable
    S, I, R,    \* its arrays (S[t] of the code is S[t + 1] here)
    results,    \* the DataFrame it returns
    peak,       \* what get_peak_infection_day(results) returned
    summary,    \* how get_epidemic_summary(results) ended
    xself,      \* the SIRModelExcelMatch instance
    xpc,        \* where discrete_simulation_excel_style is
    xS, xI, xR, \* its lists
    xresults    \* the DataFrame it returns

vars == <<args, self, pc, t, S, I, R, results, peak, summary,
          xself, xpc, xS, xI, xR, xresults>>

simVars == <<self, pc, t, S, I, R, results>>

excelVars == <<xself, xpc, xS, xI, xR, xresults>>

NoObject == [class |-> "None"]

NoFrame == [Day |-> <<>>, Susceptible |-> <<>>, Infected |-> <<>>,
            Recovered |-> <<>>, Total |-> <<>>]

NoPeak == [called |-> FALSE, day |-> 0, infections |-> Zero]

NoSummary == [status |-> "none"]

Init ==
    /\ args \in ArgSets
    /\ self = NoObject
    /\ pc = "New"
    /\ t = 0
    /\ S = <<>> /\ I = <<>> /\ R = <<>>
    /\ results = NoFrame
    /\ peak = NoPeak
    /\ summary = NoSummary
    /\ xself = NoObject
    /\ xpc = "New"
    /\ xS = <<>> /\ xI = <<>> /\ xR = <<>>
    /\ xresults = NoFrame

--------------------------------------------------------------------------
(* SIRModel *)

\* SIRModel.__init__: the attributes, whatever the arguments.
SIRModel(population, initial_infected, beta, gamma) ==
    [class |-> "SIRModel",
     N     |-> population,
     I0    |-> initial_infected,
     S0    |-> population - initial_infected,
     R0    |-> 0,
     beta  |-> Lit(beta),
     gamma |-> Lit(gamma)]

SIRModelInit ==
    /\ pc = "New"
    /\ self' = SIRModel(args.population, args.initial_infected,
                        args.beta, args.gamma)
    /\ pc' = "Uninitialized"
    /\ UNCHANGED <<args, t, S, I, R, results, peak, summary>>
    /\ UNCHANGED excelVars

\* np.zeros(n)
Zeros(n) == [i \in 1..n |-> Zero]

\* discrete_simulation, up to the loop: the arrays and the initial
\* conditions (ints stored into float64 arrays).
DiscreteSimulationStart ==
    /\ pc = "Uninitialized"
    /\ S' = [Zeros(args.days + 1) EXCEPT ![1] = FromInt(self.S0)]
    /\ I' = [Zeros(args.days + 1) EXCEPT ![1] = FromInt(self.I0)]
    /\ R' = [Zeros(args.days + 1) EXCEPT ![1] = FromInt(self.R0)]
    /\ t' = 0
    /\ pc' = "Running"
    /\ UNCHANGED <<args, self, results, peak, summary>>
    /\ UNCHANGED excelVars

\* new_infections without the division by self.N
new_infections_undivided(m, s, i) == FMul(FMul(m.beta, s), i)

\* new_infections = self.beta * S[t] * I[t] / self.N
new_infections(m, s, i) == FDiv(FMul(FMul(m.beta, s), i), FromInt(m.N))

\* A slip: the transmission rate where the recovery rate belongs.
new_recoveries_beta(m, i) == FMul(m.beta, i)

\* new_recoveries = self.gamma * I[t]
new_recoveries(m, i) == FMul(m.gamma, i)

\* A slip: the new infections added to S.
next_S_plus(m, s, i, r) == FAdd(s, new_infections(m, s, i))

\* A slip: S kept from going negative.
next_S_clamped(m, s, i, r) ==
    LET v == FSub(s, new_infections(m, s, i))
    IN IF FLt(v, Zero) THEN Zero ELSE v

\* S[t+1] = S[t] - new_infections
next_S(m, s, i, r) == FSub(s, new_infections(m, s, i))

\* A slip: the new infections taken out of I.
next_I_minus(m, s, i, r) ==
    FSub(FSub(i, new_infections(m, s, i)), new_recoveries(m, i))

\* I[t+1] = I[t] + new_infections - new_recoveries

next_I(m, s, i, r) ==
    FSub(FAdd(i, new_infections(m, s, i)), new_recoveries(m, i))

\* A slip: the new infections, not the new recoveries, added to R.
next_R_infections(m, s, i, r) == FAdd(r, new_infections(m, s, i))

\* R[t+1] = R[t] + new_recoveries
next_R(m, s, i, r) == FAdd(r, new_recoveries(m, i))

\* One iteration of the loop of discrete_simulation.
DiscreteSimulationStep ==
    /\ pc = "Running"
    /\ t < args.days
    /\ S' = [S EXCEPT ![t + 2] = next_S(self, S[t + 1], I[t + 1], R[t + 1])]
    /\ I' = [I EXCEPT ![t + 2] = next_I(self, S[t + 1], I[t + 1], R[t + 1])]
    /\ R' = [R EXCEPT ![t + 2] = next_R(self, S[t + 1], I[t + 1], R[t + 1])]
    /\ t' = t + 1
    /\ UNCHANGED <<args, self, pc, results, peak, summary>>
    /\ UNCHANGED excelVars

\* S + I + R on arrays: elementwise, left to right.
TotalColumn(s, i, r) == [k \in 1..Len(s) |-> FAdd(FAdd(s[k], i[k]), r[k])]

\* range(n) as a column
RangeColumn(n) == [k \in 1..n |-> k - 1]

\* The DataFrame discrete_simulation builds once the loop has ended.
ResultsFrame(days, s, i, r) ==
    [Day         |-> RangeColumn(days + 1),
     Susceptible |-> s,
     Infected    |-> i,
     Recovered   |-> r,
     Total       |-> TotalColumn(s, i, r)]

DiscreteSimulationReturn ==
    /\ pc = "Running"
    /\ t >= args.days
    /\ results' = ResultsFrame(args.days, S, I, R)
    /\ pc' = "Completed"
    /\ UNCHANGED <<args, self, t, S, I, R, peak, summary>>
    /\ UNCHANGED excelVars


\* The later of two candidate positions wins only with a strictly greater
\* entry (0: no candidate).
FirstMax(col, l, r) ==
    IF l = 0 THEN r
    ELSE IF r = 0 THEN l
    ELSE IF FLt(col[l], col[r]) THEN r ELSE l

\* A slip: the later candidate also wins with an equal entry.
LastMax(col, l, r) ==
    IF l = 0 THEN r
    ELSE IF r = 0 THEN l
    ELSE IF FLe(col[l], col[r]) THEN r ELSE l

\* Series.idxmax() and Series.max() skip nan and keep the first maximum:
\* the position (from 1) of the first greatest entry of col[lo .. hi] that
\* is not nan, found by halves.
RECURSIVE ArgMaxIn(_, _, _)
ArgMaxIn(col, lo, hi) ==
    IF lo = hi
    THEN IF IsNaN(col[lo]) THEN 0 ELSE lo
    ELSE FirstMax(col, ArgMaxIn(col, lo, (lo + hi) \div 2),
                       ArgMaxIn(col, (lo + hi) \div 2 + 1, hi))

RECURSIVE ArgMaxLastIn(_, _, _)
ArgMaxLastIn(col, lo, hi) ==
    IF lo = hi
    THEN IF IsNaN(col[lo]) THEN 0 ELSE lo
    ELSE LastMax(col, ArgMaxLastIn(col, lo, (lo + hi) \div 2),
                      ArgMaxLastIn(col, (lo + hi) \div 2 + 1, hi))

idxmax_last(col) == ArgMaxLastIn(col, 1, Len(col))

\* The position (from 1) of the entry idxmax() names.
idxmax(col) == ArgMaxIn(col, 1, Len(col))

\* get_peak_infection_day(results): (int(peak_day), peak_infections).
get_peak_infection_day(res) ==
    [called     |-> TRUE,
     day        |-> res.Day[idxmax(res.Infected)],
     infections |-> res.Infected[idxmax(res.Infected)]]

\* A caller's get_peak_infection_day(results) on the returned DataFrame.
GetPeakInfectionDay ==
    /\ pc = "Completed"
    /\ ~peak.called
    /\ peak' = get_peak_infection_day(results)
    /\ UNCHANGED <<args, summary>>
    /\ UNCHANGED simVars
    /\ UNCHANGED excelVars

\* A slip: the quotient inverted.
basic_reproduction_number_inverted(m) ==
    IF m.beta = Zero THEN [err |-> "ZeroDivisionError", v |-> NaN]
    ELSE [err |-> "", v |-> FDiv(m.gamma, m.beta)]

\* R0 = self.beta / self.gamma: a division of two Python floats, which
\* raises ZeroDivisionError on a zero divisor.
basic_reproduction_number(m) ==
    IF m.gamma = Zero THEN [err |-> "ZeroDivisionError", v |-> NaN]
    ELSE [err |-> "", v |-> FDiv(m.beta, m.gamma)]

\* get_epidemic_summary(results): the summary, or the exception that ends
\* it.  R0 is computed before the dict is built; the dict's int(...) raise
\* on inf and nan; the divisions by self.N are numpy's and do not raise.
get_epidemic_summary(m, res) ==
    LET pk              == get_peak_infection_day(res)
        final_recovered == res.Recovered[Len(res.Recovered)]
        recovery_rate   == FDiv(final_recovered, FromInt(m.N))
        r0              == basic_reproduction_number(m)
    IN  IF r0.err # ""
        THEN [status |-> r0.err]
        ELSE LET R0loc == r0.v
                 pki   == PyInt(pk.infections)
                 fri   == PyInt(final_recovered)
             IN IF pki.err # "" THEN [status |-> pki.err, R0 |-> R0loc]
                ELSE IF fri.err # "" THEN [status |-> fri.err, R0 |-> R0loc]
                ELSE [status          |-> "ok",
                      R0              |-> R0loc,
                      PeakDay         |-> pk.day,
                      PeakInfections  |-> pki.v,
                      PeakPercentage  |->
                          Format(FDiv(pk.infections, FromInt(m.N)), 1000),
                      FinalRecovered  |-> fri.v,
                      RecoveryRate    |-> Format(recovery_rate, 1000),
                      R0Text          |-> Format(R0loc, 100),
                      TotalPopulation |-> m.N,
                      Beta            |-> m.beta,
                      Gamma           |-> m.gamma]

GetEpidemicSummary ==
    /\ pc = "Completed"
    /\ summary.status = "none"
    /\ summary' = get_epidemic_summary(self, results)
    /\ UNCHANGED <<args, peak>>
    /\ UNCHANGED simVars
    /\ UNCHANGED excelVars

--------------------------------------------------------------------------
(* SIRModelExcelMatch *)

\* A Python int held in a list.
PInt(n) == [k |-> "int", m |-> n, e |-> 0]

IsInt(x) == x.k = "int"

\* The float an int operand becomes next to a float operand.
PyFloat(x) == IF IsInt(x) THEN FromInt(x.m) ELSE x

\* x + y on Python numbers: exact on two ints, floating otherwise.
PyAdd(x, y) ==
    IF IsInt(x) /\ IsInt(y) THEN PInt(x.m + y.m)
    ELSE FAdd(PyFloat(x), PyFloat(y))

PySub(x, y) ==
    IF IsInt(x) /\ IsInt(y) THEN PInt(x.m - y.m)
    ELSE FSub(PyFloat(x), PyFloat(y))

PyMul(x, y) ==
    IF IsInt(x) /\ IsInt(y) THEN PInt(x.m * y.m)
    ELSE FMul(PyFloat(x), PyFloat(y))

\* SIRModelExcelMatch.__init__
SIRModelExcelMatch(population, initial_infected, beta, gamma) ==
    [class |-> "SIRModelExcelMatch",
     N     |-> population,
     I0    |-> initial_infected,
     S0    |-> population - initial_infected,
     R0    |-> 0,
     beta  |-> Lit(beta),
     gamma |-> Lit(gamma)]

ExcelInit ==
    /\ xpc = "New"
    /\ xself' = SIRModelExcelMatch(args.population, args.initial_infected,
                                   args.beta, args.gamma)
    /\ xpc' = "Uninitialized"
    /\ UNCHANGED <<args, peak, summary, xS, xI, xR, xresults>>
    /\ UNCHANGED simVars

\* discrete_simulation_excel_style, up to the loop: the lists hold the
\* attributes as they are (Python ints).
ExcelStart ==
    /\ xpc = "Uninitialized"
    /\ xS' = <<PInt(xself.S0)>>
    /\ xI' = <<PInt(xself.I0)>>
    /\ xR' = <<PInt(xself.R0)>>
    /\ xpc' = "Running"
    /\ UNCHANGED <<args, peak, summary, xself, xresults>>
    /\ UNCHANGED simVars

\* self.beta * current_S * current_I, the dividend of new_infections
excel_dividend(m, s, i) == PyMul(PyMul(m.beta, s), i)

\* new_infections = self.beta * current_S * current_I / self.N, for
\* self.N # 0 (Python raises ZeroDivisionError on a zero divisor)
excel_new_infections(m, s, i) ==
    FDiv(PyFloat(excel_dividend(m, s, i)), FromInt(m.N))

excel_new_recoveries(m, i) == PyMul(m.gamma, i)

excel_next_S(m, s, i, r) == PySub(s, excel_new_infections(m, s, i))

excel_next_I(m, s, i, r) ==
    PySub(PyAdd(i, excel_new_infections(m, s, i)), excel_new_recoveries(m, i))

excel_next_R(m, s, i, r) == PyAdd(r, excel_new_recoveries(m, i))

\* One iteration of the loop of discrete_simulation_excel_style: the three
\* appends, or the ZeroDivisionError of the division by self.N.
ExcelStep ==
    /\ xpc = "Running"
    /\ Len(xS) - 1 < args.days
    /\ LET n == Len(xS) IN
       IF xself.N = 0
       THEN /\ xpc' = "ZeroDivisionError"
            /\ UNCHANGED <<xS, xI, xR>>
       ELSE /\ xS' = Append(xS, excel_next_S(xself, xS[n], xI[n], xR[n]))
            /\ xI' = Append(xI, excel_next_I(xself, xS[n], xI[n], xR[n]))
            /\ xR' = Append(xR, excel_next_R(xself, xS[n], xI[n], xR[n]))
            /\ xpc' = xpc
    /\ UNCHANGED <<args, peak, summary, xself, xresults>>
    /\ UNCHANGED simVars

\* A DataFrame column made of a list: int64 when every entry is an int,
\* float64 (every entry converted) otherwise.
ListColumn(l) ==
    IF \A k \in 1..Len(l) : IsInt(l[k]) THEN l
    ELSE [k \in 1..Len(l) |-> PyFloat(l[k])]

\* [s+i+r for s,i,r in zip(S,I,R)]
ExcelTotal(s, i, r) == [k \in 1..Len(s) |-> PyAdd(PyAdd(s[k], i[k]), r[k])]

ExcelFrame(s, i, r) ==
    [Day         |-> RangeColumn(Len(s)),
     Susceptible |-> ListColumn(s),
     Infected    |-> ListColumn(i),
     Recovered   |-> ListColumn(r),
     Total       |-> ListColumn(ExcelTotal(s, i, r))]

ExcelReturn ==
    /\ xpc = "Running"
    /\ Len(xS) - 1 >= args.days
    /\ xresults' = ExcelFrame(xS, xI, xR)
    /\ xpc' = "Completed"
    /\ UNCHANGED <<args, peak, summary, xself, xS, xI, xR>>
    /\ UNCHANGED simVars

--------------------------------------------------------------------------
Next ==
    \/ SIRModelInit
    \/ DiscreteSimulationStart
    \/ DiscreteSimulationStep
    \/ DiscreteSimulationReturn
    \/ GetPeakInfectionDay
    \/ GetEpidemicSummary
    \/ ExcelInit
    \/ ExcelStart
    \/ ExcelStep
    \/ ExcelReturn

Spec == Init /\ [][Next]_vars

\* Where the control of __main__ goes next through SIRModel.__init__ and
\* discrete_simulation: the guards of the four actions above and what
\* they do to pc and t.
RunAdvance ==
    \/ pc = "New" /\ pc' = "Uninitialized" /\ t' = t
    \/ pc = "Uninitialized" /\ pc' = "Running" /\ t' = 0
    \/ pc = "Running" /\ t < args.days /\ pc' = pc /\ t' = t + 1
    \/ pc = "Running" /\ t >= args.days /\ pc' = "Completed" /\ t' = t

\* The __main__ block is straight-line, single-threaded code: once started
\* it constructs the model and runs discrete_simulation to its return, so
\* the control of the run advances whenever it can.
FairSpec == Spec /\ WF_<<pc, t>>(RunAdvance)

--------------------------------------------------------------------------
(* get_peak_infection_day on any results table *)

\* Longest table handed to get_peak_infection_day on its own.
MaxSeries == 3

\* The Infected values such a table is made of.
SeriesValues ==
    {FromInt(-1), Zero, FromInt(1), Lit(<<5, 2>>), FromInt(1000)}

\* The tables of 1 .. MaxSeries rows over SeriesValues.
SeriesFrames ==
    UNION { { [Day         |-> RangeColumn(n),
               Susceptible |-> Zeros(n),
               Infected    |-> col,
               Recovered   |-> Zeros(n),
               Total       |-> col] : col \in [1..n -> SeriesValues] } :
            n \in 1..MaxSeries }

\* A model of the __main__ block with any such table as the results.
PeakInit ==
    /\ args = [population |-> MainPopulation,
               initial_infected |-> MainInfected,
               beta |-> MainBeta, gamma |-> MainGamma, days |-> 0]
    /\ self = SIRModel(MainPopulation, MainInfected, MainBeta, MainGamma)
    /\ pc = "Completed"
    /\ results \in SeriesFrames
    /\ t = Len(results.Day) - 1
    /\ S = results.Susceptible /\ I = results.Infected
    /\ R = results.Recovered
    /\ peak = NoPeak
    /\ summary = NoSummary
    /\ xself = NoObject
    /\ xpc = "New"
    /\ xS = <<>> /\ xI = <<>> /\ xR = <<>>
    /\ xresults = NoFrame

PeakNext == GetPeakInfectionDay

PeakSpec == PeakInit /\ [][PeakNext]_vars

--------------------------------------------------------------------------
(* Vocabulary of the properties *)

\* The spec's valid Parameters: population > 0, 0 <= initialInfected <=
\* population, transmissionRate >= 0, recoveryRate >= 0.
ValidArgs ==
    /\ args.population > 0
    /\ 0 <= args.initial_infected
    /\ args.initial_infected <= args.population
    /\ args.beta[1] >= 0
    /\ args.gamma[1] >= 0

MainArgs ==
    /\ args.population = MainPopulation
    /\ args.initial_infected = MainInfected
    /\ args.beta = MainBeta
    /\ args.gamma = MainGamma

FAbs(x) == [x EXCEPT !.m = Abs(x.m)]

\* The unit in the last place of the finite nonzero float x.
Ulp(x) == Fin(2^(MantBits - 1), x.e - (MantBits - 1))

\* |x - n / 10000| <= 1 / 100 for a finite float x with x.e <= 0.
Near(x, n) ==
    /\ IsFin(x)
    /\ x.e <= 0
    /\ Abs(x.m * 10000 - n * 2^(-x.e)) <= 100 * 2^(-x.e)

FloatN == FromInt(args.population)

\* Every compartment of the records 0 .. k-1 has magnitude at most N.
WithinN(k) ==
    \A u \in 1..k :
        /\ FLe(FAbs(results.Susceptible[u]), FloatN)
        /\ FLe(FAbs(results.Infected[u]), FloatN)
        /\ FLe(FAbs(results.Recovered[u]), FloatN)

\* |Total - N| of record k-1
Drift(k) == FAbs(FSub(results.Total[k], FloatN))

--------------------------------------------------------------------------
(* C1 *)

--------------------------------------------------------------------------
(* C2 *)

\* C2: construction fails (no model exists) whenever population <= 0, or
\* initialInfected < 0, or initialInfected > population, or
\* transmissionRate < 0, or recoveryRate < 0.
C2_InvalidParameterRejected ==
    ~ValidArgs => (self.class = "None" /\ xself.class = "None")

--------------------------------------------------------------------------
(* C3 *)

\* The recurrence, from the caller's arguments.
C3_Infections(k) ==
    FDiv(FMul(FMul(Lit(args.beta), results.Susceptible[k]),
              results.Infected[k]),
         FromInt(args.population))

C3_Recoveries(k) == FMul(Lit(args.gamma), results.Infected[k])

\* C3: the discrete simulation returns days + 1 records; record 0 is
\* (N - I0, I0, 0) at day 0; record t+1 has day t+1 and is
\* (S - beta*S*I/N, I + beta*S*I/N - gamma*I, R + gamma*I) of record t.
C3_Records ==
    pc = "Completed" =>
        /\ Len(results.Day) = args.days + 1
        /\ Len(results.Susceptible) = args.days + 1
        /\ Len(results.Infected) = args.days + 1
        /\ Len(results.Recovered) = args.days + 1
        /\ Len(results.Total) = args.days + 1
        /\ \A k \in 1..(args.days + 1) : results.Day[k] = k - 1
        /\ results.Susceptible[1] =
               FromInt(args.population - args.initial_infected)
        /\ results.Infected[1] = FromInt(args.initial_infected)
        /\ results.Recovered[1] = Zero
        /\ \A k \in 1..args.days :
              /\ results.Susceptible[k + 1] =
                     FSub(results.Susceptible[k], C3_Infections(k))
              /\ results.Infected[k + 1] =
                     FSub(FAdd(results.Infected[k], C3_Infections(k)),
                          C3_Recoveries(k))
              /\ results.Recovered[k + 1] =
                     FAdd(results.Recovered[k], C3_Recoveries(k))

\* A completed run of several days in which people were infected and
\* recovered on the last day.
C3_Witness ==
    /\ pc = "Completed"
    /\ args.days >= 2
    /\ IsFin(C3_Infections(args.days)) /\ C3_Infections(args.days) # Zero
    /\ IsFin(C3_Recoveries(args.days)) /\ C3_Recoveries(args.days) # Zero

--------------------------------------------------------------------------
(* C4 *)

C4_Scenario == pc = "Completed" /\ MainArgs /\ args.days = ExcelMainDays

\* C4 as stated: Model(1000, 1, 0.5, 0.1) run for 10 days has, at day 1,
\* S ~ 999.4995, I ~ 0.5005, R ~ 0.1.
C4_Day1AsStated ==
    C4_Scenario =>
        /\ Near(results.Susceptible[2], 9994995)
        /\ Near(results.Infected[2], 5005)
        /\ Near(results.Recovered[2], 1000)

\* C4, amended: at day 1, S ~ 998.5005, I ~ 1.3995, R ~ 0.1 (to within
\* 0.01).
C4_Day1 ==
    C4_Scenario =>
        /\ Near(results.Susceptible[2], 9985005)
        /\ Near(results.Infected[2], 13995)
        /\ Near(results.Recovered[2], 1000)

C4_Witness == C4_Scenario /\ Len(results.Susceptible) = ExcelMainDays + 1


--------------------------------------------------------------------------
(* C5 *)

\* C5: at every step t with beta >= 0, S_t >= 0 and I_t >= 0,
\* S_{t+1} <= S_t; at every step t with gamma >= 0 and I_t >= 0,
\* R_{t+1} >= R_t.
C5_Monotone ==
    pc = "Completed" =>
        \A k \in 1..args.days :
            /\ ( /\ FLe(Zero, self.beta)
                 /\ FLe(Zero, results.Susceptible[k])
                 /\ FLe(Zero, results.Infected[k]) )
               => FLe(results.Susceptible[k + 1], results.Susceptible[k])
            /\ ( /\ FLe(Zero, self.gamma)
                 /\ FLe(Zero, results.Infected[k]) )
               => FLe(results.Recovered[k], results.Recovered[k + 1])

\* The same for the runs whose population is positive: what holds of the
\* code once the division by N is defined.
C5_MonotonePositiveN == args.population > 0 => C5_Monotone


--------------------------------------------------------------------------
(* C6 *)

\* C6: get_peak_infection_day returns the day and the I value of a record
\* whose I is the maximum of the series, and of the records that share
\* that maximum the one with the smallest day; a series of constant I
\* yields day 0.  (nan entries, which only a run that has divided by zero
\* or overflowed holds, are not numbers and are passed over.)
C6_FirstMaximum ==
    peak.called =>
        LET n == Len(results.Infected) IN
        /\ \E k \in 1..n :
              /\ results.Day[k] = peak.day
              /\ results.Infected[k] = peak.infections
              /\ \A j \in 1..n :
                     \/ IsNaN(results.Infected[j])
                     \/ FLe(results.Infected[j], peak.infections)
              /\ \A j \in 1..(k - 1) :
                     \/ IsNaN(results.Infected[j])
                     \/ FLt(results.Infected[j], peak.infections)
        /\ (\A j \in 1..n : results.Infected[j] = results.Infected[1])
               => peak.day = 0

\* The peak of a series that reaches its maximum more than once.
C6_Witness ==
    /\ peak.called
    /\ \E j, k \in 1..Len(results.Infected) :
          /\ j < k
          /\ results.Infected[j] = peak.infections
          /\ results.Infected[k] = peak.infections


--------------------------------------------------------------------------
(* C7 *)

\* q is the float nearest to b / g (b, g, q finite, g # 0): the exact
\* q * g differs from b by at most half a unit in the last place of q,
\* times |g|.
NearestQuotient(q, b, g) ==
    IF b.m = 0 THEN q = Zero
    ELSE LET sh == b.e - q.e - g.e + 1 IN
         /\ IsFin(q)
         /\ sh >= 0
         /\ Abs(2 * q.m * g.m - b.m * 2^sh) <= Abs(g.m)

\* C7: once get_epidemic_summary has been called, the reproduction number
\* it computed is beta / gamma when gamma # 0 (5.0 for beta = 0.5,
\* gamma = 0.1); when gamma = 0, which construction accepts, the call ends
\* in ZeroDivisionError and returns nothing.
C7_ReproductionNumber ==
    summary.status # "none" =>
        IF args.gamma[1] = 0
        THEN /\ self.class = "SIRModel"
             /\ summary = [status |-> "ZeroDivisionError"]
        ELSE /\ summary.status # "ZeroDivisionError"
             /\ NearestQuotient(summary.R0, Lit(args.beta), Lit(args.gamma))
             /\ (args.beta = MainBeta /\ args.gamma = MainGamma)
                    => summary.R0 = FromInt(5)
             /\ (/\ args.beta = MainBeta /\ args.gamma = MainGamma
                 /\ summary.status = "ok")
                    => summary.R0Text = [k |-> "num", v |-> 500, e |-> 0]

\* get_epidemic_summary has raised ZeroDivisionError on a model built
\* with gamma = 0.
C7_Witness ==
    /\ self.class = "SIRModel"
    /\ args.gamma[1] = 0
    /\ summary.status = "ZeroDivisionError"


--------------------------------------------------------------------------
(* C8 *)

\* C8: for beta = 0.5, gamma = 0.1, N = 1000, I0 = 1 simulated over 75
\* days, get_peak_infection_day returns a day strictly between 20 and 40
\* and a peak strictly below N.
C8_PeakOfMainRun ==
    (peak.called /\ MainArgs /\ args.days = MainDays) =>
        /\ 20 < peak.day
        /\ peak.day < 40
        /\ FLt(peak.infections, FromInt(args.population))

\* The peak of the 75-day run of the __main__ block has been taken.
C8_Witness ==
    /\ peak.called /\ MainArgs /\ args.days = MainDays
    /\ Len(results.Infected) = MainDays + 1


--------------------------------------------------------------------------
(* C9 *)

\* The run moves only New -> Uninitialized -> Running -> Completed, and
\* each application of the step advances t by one while Running.
C9_Transition ==
    /\ pc' # pc =>
           \/ pc = "New" /\ pc' = "Uninitialized"
           \/ pc = "Uninitialized" /\ pc' = "Running" /\ t' = 0
           \/ pc = "Running" /\ pc' = "Completed" /\ t' = t
    /\ t' # t => (pc = "Running" /\ pc' = "Running" /\ t' = t + 1)

\* No error state; a completed run has applied the step exactly days
\* times; what it recorded is the raw recurrence, a negative S included.
C9_State ==
    /\ pc \in {"New", "Uninitialized", "Running", "Completed"}
    /\ pc = "Running" => t <= args.days
    /\ pc = "Completed" =>
          /\ t = args.days
          /\ \A k \in 1..args.days :
                LET inf == FDiv(FMul(FMul(self.beta, S[k]), I[k]),
                                FromInt(self.N))
                    rec == FMul(self.gamma, I[k])
                IN /\ results.Susceptible[k + 1] = FSub(S[k], inf)
                   /\ results.Infected[k + 1] = FSub(FAdd(I[k], inf), rec)
                   /\ results.Recovered[k + 1] = FAdd(R[k], rec)

\* C9: for valid Parameters and any days >= 0 a discrete run goes
\* Uninitialized -> Running -> Completed, reaches Completed after exactly
\* days applications of the step, never enters an error state, and records
\* the raw recurrence values (never clamped), also when S or I go negative.
C9_DiscreteRun ==
    /\ [][ValidArgs => C9_Transition]_vars
    /\ [](ValidArgs => C9_State)
    /\ (ValidArgs => <>(pc = "Completed"))

\* A completed run with valid Parameters that has driven S negative.
C9_Witness ==
    /\ pc = "Completed" /\ ValidArgs
    /\ t = args.days
    /\ \E k \in 1..Len(results.Susceptible) :
           FLt(results.Susceptible[k], Zero)

--------------------------------------------------------------------------
\* Two entries of the frames hold the same number: an int64 entry against
\* the float it equals, a NaN against a NaN.
NumEq(x, y) == PyFloat(x) = PyFloat(y)

ColumnsAgree(c, d) ==
    /\ Len(c) = Len(d)
    /\ \A k \in 1..Len(c) : NumEq(c[k], d[k])

FramesAgree(f, g) ==
    /\ f.Day = g.Day
    /\ ColumnsAgree(f.Susceptible, g.Susceptible)
    /\ ColumnsAgree(f.Infected, g.Infected)
    /\ ColumnsAgree(f.Recovered, g.Recovered)
    /\ ColumnsAgree(f.Total, g.Total)

\* A call that has come to its end, by a return or by an exception.
Ended(p) == p \notin {"New", "Uninitialized", "Running"}

\* C10: for every parameter set and every days >= 0,
\* SIRModel.discrete_simulation and
\* SIRModelExcelMatch.discrete_simulation_excel_style end the same way and
\* return series of the same length with identical Day, Susceptible,
\* Infected, Recovered and Total values at every index.
C10_Agreement ==
    (Ended(pc) /\ Ended(xpc)) =>
        /\ xpc = pc
        /\ pc = "Completed" => FramesAgree(results, xresults)

\* The same for a population other than 0, where neither call divides by
\* zero.
C10_AgreementNonZeroN == args.population # 0 => C10_Agreement

\* Both calls have ended on a population of 0 and at least one day.
C10_Divergence ==
    /\ args.population = 0 /\ args.days >= 1
    /\ pc = "Completed" /\ xpc = "ZeroDivisionError"

--------------------------------------------------------------------------
(* C11 *)

\* beta <= 1 and gamma <= 1
SmallRates ==
    /\ args.beta[1] <= args.beta[2]
    /\ args.gamma[1] <= args.gamma[2]

\* (4 (k - 1) + 2) units in the last place of N, the rounding allowance
\* of record k-1
Allowance(k) == FMul(FromInt(4 * (k - 1) + 2), Ulp(FloatN))

=============================================================================
